---- MODULE Spec2Model ----
(***************************************************************************)
(* A model of the two CORAAL preparation scripts:                          *)
(*   push_to_huggingface.py  (transcript text, metadata join, upload)      *)
(*   verify_stats.py         (word counts and durations)                   *)
(*                                                                         *)
(* Python strings are TLA+ strings.  The string functions of the scripts   *)
(* work on the sequence of the string's characters (Chars) and give a     *)
(* string back (Str), so that stripping, splitting and the regular         *)
(* expressions are computed character by character, as Python does.        *)
(***************************************************************************)
EXTENDS Integers, Sequences, FiniteSets, TLC

(***************************************************************************)
(* Strings and the Python string methods the scripts use                   *)
(***************************************************************************)
Chars(str) == [i \in 1..Len(str) |-> SubSeq(str, i, i)]

RECURSIVE Str(_)
Str(cs) == IF cs = <<>> THEN "" ELSE Head(cs) \o Str(Tail(cs))


Min(S) == CHOOSE m \in S : \A n \in S : m <= n

Max(S) == CHOOSE m \in S : \A n \in S : n <= m

Whitespace == {" ", "\t", "\n", "\r", "\f"}

AsciiLetters ==
  { "a", "b", "c", "d", "e", "f", "g", "h", "i", "j", "k", "l", "m",
    "n", "o", "p", "q", "r", "s", "t", "u", "v", "w", "x", "y", "z",
    "A", "B", "C", "D", "E", "F", "G", "H", "I", "J", "K", "L", "M",
    "N", "O", "P", "Q", "R", "S", "T", "U", "V", "W", "X", "Y", "Z" }

UpperLetters ==
  { "A", "B", "C", "D", "E", "F", "G", "H", "I", "J", "K", "L", "M",
    "N", "O", "P", "Q", "R", "S", "T", "U", "V", "W", "X", "Y", "Z" }

Digits == { "0", "1", "2", "3", "4", "5", "6", "7", "8", "9" }

\* the first position of the character c in cs, 0 when there is none
FirstIndex(cs, c) ==
  LET at == { i \in 1..Len(cs) : cs[i] = c }
  IN  IF at = {} THEN 0 ELSE Min(at)

\* str.startswith, on character sequences
StartsWith(cs, p) == Len(cs) >= Len(p) /\ SubSeq(cs, 1, Len(p)) = p

\* str.endswith, on character sequences
EndsWith(cs, p) ==
  Len(cs) >= Len(p) /\ SubSeq(cs, Len(cs) - Len(p) + 1, Len(cs)) = p

\* str.strip(): leading and trailing whitespace removed
Strip(cs) ==
  LET keep == { i \in 1..Len(cs) : cs[i] \notin Whitespace }
  IN  IF keep = {} THEN <<>> ELSE SubSeq(cs, Min(keep), Max(keep))

\* str.split(sep) for a one-character separator: always at least one part
RECURSIVE SplitOn(_, _)
SplitOn(cs, sep) ==
  LET at == { i \in 1..Len(cs) : cs[i] = sep }
  IN  IF at = {} THEN << cs >>
      ELSE << SubSeq(cs, 1, Min(at) - 1) >>
             \o SplitOn(SubSeq(cs, Min(at) + 1, Len(cs)), sep)

\* str.split(): the maximal runs of non-whitespace characters
RECURSIVE SplitWs(_)
SplitWs(cs) ==
  LET keep == { i \in 1..Len(cs) : cs[i] \notin Whitespace }
  IN  IF keep = {} THEN <<>>
      ELSE LET b    == Min(keep)
               stop == { i \in b..Len(cs) : cs[i] \in Whitespace }
               e    == IF stop = {} THEN Len(cs) ELSE Min(stop) - 1
           IN  << SubSeq(cs, b, e) >> \o SplitWs(SubSeq(cs, e + 1, Len(cs)))

\* sep.join(parts), on character sequences
RECURSIVE Join(_, _)
Join(parts, sep) ==
  IF parts = <<>> THEN <<>>
  ELSE IF Len(parts) = 1 THEN parts[1]
  ELSE parts[1] \o sep \o Join(Tail(parts), sep)

(***************************************************************************)
(* re.sub: the leftmost non-overlapping matches are replaced.  ml[i] is    *)
(* the length of the match of the pattern that starts at position i, or 0 *)
(* (none of the patterns of the scripts matches the empty string).         *)
(***************************************************************************)
RECURSIVE ReSubFrom(_, _, _, _)
ReSubFrom(cs, ml, rep, i) ==
  IF i > Len(cs) THEN <<>>
  ELSE IF ml[i] > 0 THEN rep \o ReSubFrom(cs, ml, rep, i + ml[i])
  ELSE << cs[i] >> \o ReSubFrom(cs, ml, rep, i + 1)

\* r'[\[\]]' at i
BracketMatch(cs, i) == IF cs[i] \in {"[", "]"} THEN 1 ELSE 0

\* r'<[^>]+>' at i: "<", one or more characters other than ">", ">"
AngleMatch(cs, i) ==
  IF cs[i] # "<" THEN 0
  ELSE LET close == { k \in (i + 1)..Len(cs) : cs[k] = ">" }
       IN  IF close = {} \/ Min(close) < i + 2 THEN 0
           ELSE Min(close) - i + 1

\* r'/RD-[^/]+/' at i: "/RD-", one or more characters other than "/", "/"
RedactionMatch(cs, i) ==
  IF ~ StartsWith(SubSeq(cs, i, Len(cs)), <<"/", "R", "D", "-">>) THEN 0
  ELSE LET close == { k \in (i + 4)..Len(cs) : cs[k] = "/" }
       IN  IF close = {} \/ Min(close) < i + 5 THEN 0
           ELSE Min(close) - i + 1

\* r'\([a-zA-Z]+\)' at i: "(", one or more ASCII letters, ")"
DescriptorMatch(cs, i) ==
  IF cs[i] # "(" THEN 0
  ELSE LET stop == { k \in (i + 1)..Len(cs) : cs[k] \notin AsciiLetters }
       IN  IF stop = {} \/ Min(stop) < i + 2 \/ cs[Min(stop)] # ")" THEN 0
           ELSE Min(stop) - i + 1

\* r'[<\[\]/]' at i
MarkupCharMatch(cs, i) == IF cs[i] \in {"<", "[", "]", "/"} THEN 1 ELSE 0

\* r'/RD-[A-Z]+-\d+/' at i
MarkerMatch(cs, i) ==
  IF ~ StartsWith(SubSeq(cs, i, Len(cs)), <<"/", "R", "D", "-">>) THEN 0
  ELSE LET stopU == { k \in (i + 4)..Len(cs) : cs[k] \notin UpperLetters }
       IN  IF stopU = {} \/ Min(stopU) < i + 5 \/ cs[Min(stopU)] # "-" THEN 0
           ELSE LET d     == Min(stopU) + 1
                    stopD == { k \in d..Len(cs) : cs[k] \notin Digits }
                IN  IF stopD = {} \/ Min(stopD) < d + 1
                       \/ cs[Min(stopD)] # "/" THEN 0
                    ELSE Min(stopD) - i + 1

\* re.sub(r'[\[\]]', '', content)
SubBrackets(cs) ==
  ReSubFrom(cs, [i \in 1..Len(cs) |-> BracketMatch(cs, i)], <<>>, 1)

\* re.sub(r'<[^>]+>', '', content)
SubAngle(cs) ==
  ReSubFrom(cs, [i \in 1..Len(cs) |-> AngleMatch(cs, i)], <<>>, 1)

\* re.sub(r'/RD-[^/]+/', '', content)
SubRedaction(cs) ==
  ReSubFrom(cs, [i \in 1..Len(cs) |-> RedactionMatch(cs, i)], <<>>, 1)

\* re.sub(r'\([a-zA-Z]+\)', '', content)
SubDescriptor(cs) ==
  ReSubFrom(cs, [i \in 1..Len(cs) |-> DescriptorMatch(cs, i)], <<>>, 1)

\* re.sub(r'[<\[\]/]', ' ', content)
SubMarkupChars(cs) ==
  ReSubFrom(cs, [i \in 1..Len(cs) |-> MarkupCharMatch(cs, i)], <<" ">>, 1)

\* re.sub(r'/RD-[A-Z]+-\d+/', '', content)
SubMarker(cs) ==
  ReSubFrom(cs, [i \in 1..Len(cs) |-> MarkerMatch(cs, i)], <<>>, 1)

\* str.replace('  ', ' '): every pair of spaces becomes one, in one pass
CollapseSpacePairs(cs) ==
  ReSubFrom(cs, [i \in 1..Len(cs) |->
                   IF i < Len(cs) /\ cs[i] = " " /\ cs[i + 1] = " "
                   THEN 2 ELSE 0], <<" ">>, 1)

\* ' '.join(content.split())
CollapseWhitespace(cs) == Join(SplitWs(cs), <<" ">>)

(***************************************************************************)
(* A text file is the sequence of its lines (without the line ends) and   *)
(* the place where reading it fails: err = 0 when every read succeeds,    *)
(* err = k when opening the file or fetching its k-th line raises (k = 1  *)
(* is a failure of open() or of the header's next(f)).                     *)
(***************************************************************************)

\* the cleaning with the descriptors removed before the redaction spans
CleanContentDescriptorsFirst(content) ==
  CollapseWhitespace(SubRedaction(SubDescriptor(SubAngle(SubBrackets(content)))))

\* push_to_huggingface.py, the cleaning of one line's content
CleanContent(content) ==
  CollapseWhitespace(SubDescriptor(SubRedaction(SubAngle(SubBrackets(content)))))

\* the column the scripts call content: parts[3] of line.strip().split('\t')
LineParts(line) == SplitOn(Strip(Chars(line)), "\t")

\* one pass of the loop body of extract_text_from_txt: what it appends to texts
TextOfLine(line) ==
  LET parts == LineParts(line)
  IN  IF Len(parts) < 4 THEN <<>>
      ELSE LET content == parts[4]
           IN  IF StartsWith(content, Chars("(pause")) THEN <<>>
               ELSE IF content = <<>> THEN <<>>
               ELSE LET cleaned == CleanContent(content)
                    IN  IF cleaned # <<>> THEN << cleaned >> ELSE <<>>

\* the filter without its test for the RD- markers
KeptWordsWithMarkers(words) == SelectSeq(words, LAMBDA w : w # <<>>)

\* the words the filter of count_words_from_txt keeps
KeptWords(words) ==
  SelectSeq(words, LAMBDA w : w # <<>> /\ ~ StartsWith(w, Chars("RD-")))

\* one pass of the loop body of count_words_from_txt: what it adds to word_count
WordsOfLine(line) ==
  LET parts == LineParts(line)
  IN  IF Len(parts) < 4 THEN 0
      ELSE LET content == parts[4]
           IN  IF StartsWith(content, Chars("(pause")) THEN 0
               ELSE IF content = <<>> THEN 0
               ELSE Len(KeptWords(SplitWs(SubMarker(SubMarkupChars(content)))))

\* for line in f, from the k-th line of the file on
RECURSIVE ExtractLoop(_, _, _)
ExtractLoop(f, k, texts) ==
  IF f.err = k THEN [raised |-> TRUE, texts |-> texts]
  ELSE IF k > Len(f.lines) THEN [raised |-> FALSE, texts |-> texts]
  ELSE ExtractLoop(f, k + 1, texts \o TextOfLine(f.lines[k]))

extract_text_from_txt(f) ==
  IF f.err = 1 \/ f.lines = <<>> THEN ""
  ELSE LET r == ExtractLoop(f, 2, <<>>)
       IN  IF r.raised THEN "" ELSE Str(Join(r.texts, <<" ">>))

RECURSIVE CountLoop(_, _, _)
CountLoop(f, k, word_count) ==
  IF f.err = k THEN word_count
  ELSE IF k > Len(f.lines) THEN word_count
  ELSE CountLoop(f, k + 1, word_count + WordsOfLine(f.lines[k]))

count_words_from_txt(f) ==
  IF f.err = 1 \/ f.lines = <<>> THEN 0
  ELSE CountLoop(f, 2, 0)

(***************************************************************************)
(* The transcripts the model reads                                         *)
(***************************************************************************)
MaxPieces == 3

MaxSlashPieces == 5

MaxLines == 2

TranscriptHeader == "Line\tSpkr\tStTime\tContent\tEnTime"

\* the pieces a line's content is put together from
Pieces ==
  { "/", "RD-", "a", " ", "/RD-b/", "(a)", "(", ")", "<", ">", "[", "]" }

SlashPieces == { "/", "RD-", "a", " ", "/RD-b/", "(a)" }

RECURSIVE JoinStr(_)
JoinStr(ps) == IF ps = <<>> THEN "" ELSE Head(ps) \o JoinStr(Tail(ps))

\* a well-formed data line with the given content
DataLine(content) == "1\tsp\t0.0\t" \o content \o "\t1.0"

OneLineFile(content) ==
  [lines |-> << TranscriptHeader, DataLine(content) >>, err |-> 0]

\* the pieces a content without markup is put together from
CleanPieces == { "he", "said", "pause", "RD-", " ", "  ", "\f" }

MaxCleanPieces == 4

TranscriptLines ==
  { "1\tsp\t0.0\thello there\t1.0",
    "2\tsp\t1.0\t(pause 0.50)\t1.5",
    "\tsp\t1.0\t(pause 0.50)\t1.5",
    "3\tsp\t1.5\t[he] <laugh> said /RD-NAME-1/ (breathy) hello\t2.5",
    "4\tsp",
    "5\tsp\t2.5\t\t3.0",
    "6\tsp\t3.0\t(pauses) for thought\t4.0",
    "7\tsp\t4.0\t <ts> \t5.0" }

(***************************************************************************)
(* verify_stats.py: the duration of a TextGrid file.  A float is modelled  *)
(* as the whole number of 10^-FracDigits seconds it stands for, so that    *)
(* "125.430000" and "125.43" are the same duration.                        *)
(***************************************************************************)
FracDigits == 6

DigitValue(c) ==
  CASE c = "0" -> 0 [] c = "1" -> 1 [] c = "2" -> 2 [] c = "3" -> 3
    [] c = "4" -> 4 [] c = "5" -> 5 [] c = "6" -> 6 [] c = "7" -> 7
    [] c = "8" -> 8 [] c = "9" -> 9

RECURSIVE DecimalValue(_)
DecimalValue(ds) ==
  IF ds = <<>> THEN 0
  ELSE 10 * DecimalValue(SubSeq(ds, 1, Len(ds) - 1)) + DigitValue(ds[Len(ds)])

\* float(token) raises ValueError unless the run of digits and dots has at
\* least one digit and at most one dot
FloatValid(token) ==
  /\ \E i \in 1..Len(token) : token[i] \in Digits
  /\ Cardinality({ i \in 1..Len(token) : token[i] = "." }) <= 1

\* float(token), in units of 10^-FracDigits
FloatValue(token) ==
  LET dot   == FirstIndex(token, ".")
      whole == IF dot = 0 THEN token ELSE SubSeq(token, 1, dot - 1)
      frac  == IF dot = 0 THEN <<>> ELSE SubSeq(token, dot + 1, Len(token))
      fixed == [i \in 1..FracDigits |-> IF i <= Len(frac) THEN frac[i] ELSE "0"]
  IN  DecimalValue(whole) * (10 ^ FracDigits) + DecimalValue(fixed)

\* the first position from q on that holds no whitespace (Len + 1 if none)
SkipWhitespace(cs, q) ==
  LET stop == { k \in q..Len(cs) : cs[k] \notin Whitespace }
  IN  IF stop = {} THEN Len(cs) + 1 ELSE Min(stop)

\* r'xmax\s*=\s*([\d.]+)' matched at position p: group 1, or <<>> for no match
XmaxMatchAt(cs, p) ==
  IF ~ StartsWith(SubSeq(cs, p, Len(cs)), <<"x", "m", "a", "x">>) THEN <<>>
  ELSE LET q == SkipWhitespace(cs, p + 4)
       IN  IF q > Len(cs) \/ cs[q] # "=" THEN <<>>
           ELSE LET b    == SkipWhitespace(cs, q + 1)
                    stop == { k \in b..Len(cs) : cs[k] \notin Digits \cup {"."} }
                    e    == IF stop = {} THEN Len(cs) ELSE Min(stop) - 1
                IN  SubSeq(cs, b, e)

\* re.search(r'xmax\s*=\s*([\d.]+)', line): group 1 of the leftmost match
XmaxSearch(cs) ==
  LET at == { p \in 1..Len(cs) : XmaxMatchAt(cs, p) # <<>> }
  IN  IF at = {} THEN <<>> ELSE XmaxMatchAt(cs, Min(at))

\* for line in f, from the k-th line on; an exception gives 0.0
RECURSIVE DurationLoop(_, _)
DurationLoop(g, k) ==
  IF g.err = k THEN 0
  ELSE IF k > Len(g.lines) THEN 0
  ELSE IF StartsWith(Strip(Chars(g.lines[k])), Chars("xmax ="))
       THEN LET token == XmaxSearch(Chars(g.lines[k]))
            IN  IF token # <<>>
                THEN (IF FloatValid(token) THEN FloatValue(token) ELSE 0)
                ELSE DurationLoop(g, k + 1)
       ELSE DurationLoop(g, k + 1)

get_duration_from_textgrid(g) == DurationLoop(g, 1)

MaxGridLines == 3

TextGridLines ==
  { "xmin = 0 ",
    "xmax = 125.430000 ",
    "        xmax = 2.5 ",
    "xmax = ",
    "xmax = 1.2.3",
    "xmax=4",
    "xmax = n/a xmax=9",
    "item []: " }

(***************************************************************************)
(* The corpus on disk.  A component's directory is there or not; when it   *)
(* is, it is the sequence of its files in the order the file system        *)
(* enumerates them, each a name and a text file as above.                  *)
(***************************************************************************)
components == << "ATL", "DCA", "DCB", "DTA", "LES", "PRV", "ROC", "VLD" >>

\* Python's None; no field of a file of the model is this string
PyNone == "<None>"

\* {}
EmptyDict == [k \in {} |-> ""]

\* dict.update
DictUpdate(d, other) ==
  [k \in DOMAIN d \cup DOMAIN other |->
     IF k \in DOMAIN other THEN other[k] ELSE d[k]]

\* d.get(key, {})
DictGet(d, key) == IF key \in DOMAIN d THEN d[key] ELSE EmptyDict

MissingDir == [exists |-> FALSE, entries |-> <<>>]

\* Path.glob('*' + suffix): the names that end with the suffix
GlobSuffix(entries, suffix) ==
  SelectSeq(entries, LAMBDA e : EndsWith(Chars(e.name), Chars(suffix)))

\* Path.glob(f'{component}_metadata_*.txt')
GlobMetadata(entries, component) ==
  SelectSeq(entries,
            LAMBDA e :
              /\ StartsWith(Chars(e.name), Chars(component \o "_metadata_"))
              /\ EndsWith(Chars(e.name), Chars(".txt"))
              /\ Len(e.name) >= Len(component \o "_metadata_") + Len(".txt"))

\* the position of the suffix's dot in a file name: the last dot, when it is
\* neither the first nor the last character; 0 when the name has no suffix
SuffixDot(name) ==
  LET dots == { i \in 1..Len(name) : Chars(name)[i] = "." }
  IN  IF dots = {} \/ Max(dots) = 1 \/ Max(dots) = Len(name) THEN 0
      ELSE Max(dots)

\* Path(name).stem
PathStem(name) ==
  IF SuffixDot(name) = 0 THEN name ELSE SubSeq(name, 1, SuffixDot(name) - 1)

\* Path(name).with_suffix(suffix)
WithSuffix(name, suffix) == PathStem(name) \o suffix

\* txt_file.exists()
Exists(entries, name) == \E i \in 1..Len(entries) : entries[i].name = name

FileNamed(entries, name) ==
  entries[Min({ i \in 1..Len(entries) : entries[i].name = name })].file

\* base.rsplit('_', 1), then the first part when there are two
parse_filename(filename) ==
  LET base == PathStem(filename)
      at   == { i \in 1..Len(base) : Chars(base)[i] = "_" }
  IN  IF at # {} THEN SubSeq(base, 1, Max(at) - 1) ELSE base

(***************************************************************************)
(* load_metadata: csv.DictReader with delimiter '\t' on the first file     *)
(* that matches.  The fields of the model's tables hold no quote           *)
(* character, so a row is its line split at the tabs, and an empty line is *)
(* the empty row.                                                          *)
(***************************************************************************)
CsvRow(line) ==
  IF line = "" THEN <<>>
  ELSE LET parts == SplitOn(Chars(line), "\t")
       IN  [j \in 1..Len(parts) |-> Str(parts[j])]

\* a row as a dict that leaves the identifier column out
DictRowWithoutIdentifier(fieldnames, row) ==
  LET m    == IF Len(fieldnames) < Len(row) THEN Len(fieldnames) ELSE Len(row)
      keys == { fieldnames[j] : j \in 1..m } \ { "CORAAL.File" }
  IN  [k \in keys |-> row[Max({ j \in 1..m : fieldnames[j] = k })]]

\* DictReader.__next__: dict(zip(fieldnames, row)), the fields beyond the
\* header under the key None, the columns beyond the row set to None
DictRow(fieldnames, row) ==
  LET lf   == Len(fieldnames)
      lr   == Len(row)
      m    == IF lf < lr THEN lf ELSE lr
      zip  == { fieldnames[j] : j \in 1..m }
      rest == { fieldnames[j] : j \in (lr + 1)..lf }
      d    == [k \in zip \cup rest |->
                 IF k \in rest THEN PyNone
                 ELSE row[Max({ j \in 1..m : fieldnames[j] = k })]]
  IN  IF lf < lr THEN d @@ (PyNone :> SubSeq(row, lf + 1, lr)) ELSE d

\* for row in reader, from the k-th line of the file on
RECURSIVE MetadataLoop(_, _, _, _)
MetadataLoop(fieldnames, lines, k, metadata_dict) ==
  IF k > Len(lines) THEN metadata_dict
  ELSE IF CsvRow(lines[k]) = <<>>
       THEN MetadataLoop(fieldnames, lines, k + 1, metadata_dict)
  ELSE LET row     == DictRow(fieldnames, CsvRow(lines[k]))
           file_id == IF "CORAAL.File" \in DOMAIN row
                      THEN row["CORAAL.File"] ELSE ""
       IN  IF file_id # "" /\ file_id # PyNone
           THEN MetadataLoop(fieldnames, lines, k + 1,
                             DictUpdate(metadata_dict, file_id :> row))
           ELSE MetadataLoop(fieldnames, lines, k + 1, metadata_dict)

load_metadata(entries, component) ==
  LET metadata_files == GlobMetadata(entries, component)
  IN  IF metadata_files = <<>> THEN EmptyDict
      ELSE LET f == metadata_files[1].file
           IN  IF f.err >= 1 /\ f.err <= Len(f.lines) + 1 THEN EmptyDict
               ELSE IF f.lines = <<>> THEN EmptyDict
               ELSE MetadataLoop(CsvRow(f.lines[1]), f.lines, 2, EmptyDict)

(***************************************************************************)
(* collect_dataset_samples, one component                                  *)
(***************************************************************************)
TEST_SAMPLES_PER_COMPONENT == 2

\* wav_files[:max_per_component]; the limit is <<>> for None, << n >> for n
Limited(wav_files, max_per_component) ==
  IF max_per_component = <<>> THEN wav_files
  ELSE IF max_per_component[1] < Len(wav_files)
       THEN SubSeq(wav_files, 1, max_per_component[1])
       ELSE wav_files

\* the identifier with the session number cut off
FileIdWithoutSession(wav_name) == parse_filename(wav_name)

\* full_file_id = Path(wav_file).stem
FullFileId(wav_name) == PathStem(wav_name)

\* the sample of one audio file that has a transcript
SampleOf(entries, component, wav_name, metadata_dict) ==
  LET text          == extract_text_from_txt(
                         FileNamed(entries, WithSuffix(wav_name, ".txt")))
      full_file_id  == FullFileId(wav_name)
      file_metadata == DictGet(metadata_dict, full_file_id)
      sample        == ("audio" :> (component \o "/" \o wav_name))
                         @@ ("text" :> text) @@ ("file_id" :> full_file_id)
  IN  DictUpdate(sample, file_metadata)

\* for wav_file in wav_files, from the k-th on
RECURSIVE SamplesLoop(_, _, _, _, _, _)
SamplesLoop(entries, component, wav_files, k, metadata_dict, samples) ==
  IF k > Len(wav_files) THEN samples
  ELSE IF ~ Exists(entries, WithSuffix(wav_files[k].name, ".txt"))
       THEN SamplesLoop(entries, component, wav_files, k + 1, metadata_dict,
                        samples)
  ELSE SamplesLoop(entries, component, wav_files, k + 1, metadata_dict,
                   Append(samples,
                          SampleOf(entries, component, wav_files[k].name,
                                   metadata_dict)))

\* the samples of a component whose directory exists
ComponentSamples(entries, component, max_per_component) ==
  SamplesLoop(entries, component,
              Limited(GlobSuffix(entries, ".wav"), max_per_component), 1,
              load_metadata(entries, component), <<>>)

\* if samples: all_samples[component] = samples
WithSamples(all_samples, component, samples) ==
  IF samples # <<>>
  THEN Append(all_samples, [component |-> component, samples |-> samples])
  ELSE all_samples

(***************************************************************************)
(* analyze_corpus, one component                                           *)
(***************************************************************************)
RECURSIVE SumWords(_, _)
SumWords(txt_files, k) ==
  IF k > Len(txt_files) THEN 0
  ELSE count_words_from_txt(txt_files[k].file) + SumWords(txt_files, k + 1)

RECURSIVE SumSeconds(_, _)
SumSeconds(textgrid_files, k) ==
  IF k > Len(textgrid_files) THEN 0
  ELSE get_duration_from_textgrid(textgrid_files[k].file)
         + SumSeconds(textgrid_files, k + 1)

\* results[component]; hours is total_seconds / 3600 as an exact fraction
ComponentStatistics(entries, component) ==
  LET txt_files      == GlobSuffix(entries, ".txt")
      textgrid_files == GlobSuffix(entries, ".TextGrid")
  IN  [component |-> component,
       words |-> SumWords(txt_files, 1),
       hours |-> [seconds |-> SumSeconds(textgrid_files, 1), per |-> 3600],
       txt_files |-> Len(txt_files),
       textgrid_files |-> Len(textgrid_files)]

(***************************************************************************)
(* create_datasets and the configuration of main                           *)
(***************************************************************************)
RECURSIVE AllKeys(_, _)
AllKeys(samples, k) ==
  IF k > Len(samples) THEN {}
  ELSE DOMAIN samples[k] \cup AllKeys(samples, k + 1)

\* one Dataset per component: its rows and its columns
RECURSIVE create_datasets(_, _)
create_datasets(all_samples, k) ==
  IF k > Len(all_samples) THEN <<>>
  ELSE LET samples == all_samples[k].samples
           rest    == create_datasets(all_samples, k + 1)
       IN  IF samples = <<>> THEN rest
           ELSE << [component |-> all_samples[k].component,
                    dataset |-> samples,
                    features |-> {"audio", "text", "file_id"}
                                   \cup AllKeys(samples, 1)] >> \o rest

PlaceholderRepoId == "your-username/coraal"

\* the test that always lets the run go on to the data sets
NeverNoSamples(all_samples) == FALSE

\* if not all_samples: return
NoSamplesCollected(all_samples) == all_samples = <<>>

\* if REPO_ID == "your-username/coraal": return
Unconfigured(repo_id) == repo_id = PlaceholderRepoId

\* the loop that ends at the first directory that is not there
StopAtMissing(k) == Len(components) + 1

\* continue: on to the next component
SkipMissing(k) == k + 1

(***************************************************************************)
(* The files of the model's corpus                                         *)
(***************************************************************************)
MaxRows == 2

ComponentNames == { components[i] : i \in 1..Len(components) }

Entry(name, file) == [name |-> name, file |-> file]

Readable(lines) == [lines |-> lines, err |-> 0]

Unreadable == [lines |-> <<>>, err |-> 1]

\* ATL_se0_ag1_f_01_1 and so on
Recording(c, session) == c \o "_se0_ag1_f_01_" \o session

Transcript(c, session) ==
  Readable(<< TranscriptHeader,
              "1\t" \o c \o "\t0.0\t(pause 0.50)\t0.5",
              "2\t" \o c \o "\t0.5\tsession <ts> " \o session \o "\t1.5" >>)

TextGrid == Readable(<< "xmin = 0 ", "xmax = 125.430000 ", "tiers? <exists> " >>)

MetadataHeader == "CORAAL.File\tAge\tGender"

MetadataHeaders == { MetadataHeader, "Spkr\tAge\tGender" }

MetadataRows(c) ==
  { Recording(c, "1") \o "\t19\tf",
    c \o "_se0_ag1_f_01\t19\tf",
    Recording(c, "1") \o "\t20",
    Recording(c, "1") \o "\t21\tm\tnote",
    "",
    "\t22\tf" }

MetadataTables(c) ==
  { Readable(<< h >> \o rows) :
      h \in MetadataHeaders,
      rows \in UNION { [1..n -> MetadataRows(c)] : n \in 0..MaxRows } }
    \cup { [lines |-> << MetadataHeader, Recording(c, "1") \o "\t19\tf" >>,
            err |-> e] : e \in 1..3 }
    \cup { Readable(<<>>) }

PlainMetadata(c) == Readable(<< MetadataHeader, Recording(c, "1") \o "\t19\tf" >>)

MetadataName(c) == c \o "_metadata_2020.05.txt"

PlainDir(c) ==
  [exists |-> TRUE,
   entries |-> << Entry(Recording(c, "1") \o ".wav", Readable(<<>>)),
                  Entry(Recording(c, "1") \o ".txt", Transcript(c, "1")),
                  Entry(MetadataName(c), PlainMetadata(c)),
                  Entry(Recording(c, "1") \o ".TextGrid", TextGrid) >>]

EmptyDir == [exists |-> TRUE, entries |-> <<>>]

\* one recording with its transcript and the given metadata table
DirWithMetadata(c, table) ==
  [exists |-> TRUE,
   entries |-> << Entry(Recording(c, "1") \o ".wav", Readable(<<>>)),
                  Entry(Recording(c, "1") \o ".txt", Transcript(c, "1")),
                  Entry(MetadataName(c), table) >>]

FirstTranscripts(c) ==
  { << Entry(Recording(c, "1") \o ".txt", Transcript(c, "1")) >>,
    << Entry(Recording(c, "1") \o ".txt", Unreadable) >>,
    << Entry(Recording(c, "1") \o ".txt",
             [lines |-> Transcript(c, "1").lines, err |-> 3]) >>,
    <<>> }

MoreRecordings(c) ==
  { <<>>,
    << Entry(Recording(c, "2") \o ".wav", Readable(<<>>)),
       Entry(Recording(c, "2") \o ".txt", Transcript(c, "2")),
       Entry(Recording(c, "3") \o ".wav", Readable(<<>>)),
       Entry(Recording(c, "3") \o ".txt", Transcript(c, "3")) >> }

MetadataEntries(c) ==
  { <<>>,
    << Entry(MetadataName(c), PlainMetadata(c)) >>,
    << Entry(c \o "_metadata_old.txt", Readable(<< "Spkr\tAge" >>)),
       Entry(MetadataName(c), PlainMetadata(c)) >> }

TextGridEntries(c) ==
  { <<>>,
    << Entry(Recording(c, "1") \o ".TextGrid", TextGrid) >>,
    << Entry(Recording(c, "1") \o ".TextGrid", Unreadable),
       Entry(Recording(c, "2") \o ".TextGrid", Readable(<< "xmax = 2.5" >>)) >> }

DirsOfFiles(c) ==
  { [exists |-> TRUE,
     entries |-> << Entry(Recording(c, "1") \o ".wav", Readable(<<>>)) >>
                   \o t \o w \o m \o g] :
      t \in FirstTranscripts(c), w \in MoreRecordings(c),
      m \in MetadataEntries(c), g \in TextGridEntries(c) }

\* every component there (plain) or not
PresenceFamily ==
  { [c \in ComponentNames |-> IF c \in P THEN PlainDir(c) ELSE MissingDir] :
      P \in SUBSET ComponentNames }

\* the first component with a directory of its own, the others all there or
\* all missing
DetailFamily ==
  { [c \in ComponentNames |->
       IF c = components[1] THEN d
       ELSE IF others THEN PlainDir(c) ELSE MissingDir] :
      d \in { DirWithMetadata(components[1], t) :
                t \in MetadataTables(components[1]) }
              \cup DirsOfFiles(components[1]) \cup { EmptyDir },
      others \in BOOLEAN }

VARIABLES
  pc,             \* where the run is
  txt_path,       \* the transcript file handed to the two readers
  text,           \* what extract_text_from_txt returned
  recleaned,      \* what it returned for a line whose content is that text
  word_count,     \* what count_words_from_txt returned
  textgrid_path,  \* the alignment-grid file handed to the duration reader
  duration,       \* what get_duration_from_textgrid returned
  fs,             \* the component directories under base_dir
  REPO_ID,        \* main's configuration
  TEST_MODE,      \* main's configuration
  ci,             \* the position in components of the loop of the walk
  visited,        \* the components the loop has taken up, in order
  metadata_dict,  \* the metadata of the component last collected
  all_samples,    \* collect_dataset_samples' ordered mapping
  component_datasets,  \* create_datasets' ordered mapping
  push_attempted, \* push_dataset_to_hub has been called
  pushed,         \* the configs pushed to the hub, in order
  results         \* analyze_corpus' ordered mapping

readerVars ==
  << txt_path, text, recleaned, word_count, textgrid_path, duration >>

walkVars ==
  << fs, REPO_ID, TEST_MODE, ci, visited, metadata_dict, all_samples,
     component_datasets, push_attempted, pushed, results >>

vars == << pc, readerVars, walkVars >>

NoFile == [lines |-> <<>>, err |-> 0]

IdleReaders ==
  /\ txt_path = NoFile
  /\ text = ""
  /\ recleaned = ""
  /\ word_count = 0
  /\ textgrid_path = NoFile
  /\ duration = 0

IdleWalk ==
  /\ fs = [c \in ComponentNames |-> MissingDir]
  /\ REPO_ID = "bezzam/coraal"
  /\ TEST_MODE = FALSE
  /\ ci = 1
  /\ visited = <<>>
  /\ metadata_dict = EmptyDict
  /\ all_samples = <<>>
  /\ component_datasets = <<>>
  /\ push_attempted = FALSE
  /\ pushed = <<>>
  /\ results = <<>>

(***************************************************************************)
(* The two transcript readers on one file                                  *)
(***************************************************************************)
InitContent ==
  \/ \E n \in 0..MaxPieces : \E ps \in [1..n -> Pieces] :
       txt_path = OneLineFile(JoinStr(ps))
  \/ \E n \in 0..MaxSlashPieces : \E ps \in [1..n -> SlashPieces] :
       txt_path = OneLineFile(JoinStr(ps))

InitFile ==
  \E n \in 0..MaxLines : \E ls \in [1..n -> TranscriptLines] :
    \E e \in 0..(n + 2) :
      txt_path = [lines |-> << TranscriptHeader >> \o ls, err |-> e]

InitEmptyFile == txt_path = NoFile

InitText ==
  /\ pc = "ready"
  /\ InitContent \/ InitFile \/ InitEmptyFile
  /\ text = ""
  /\ recleaned = ""
  /\ word_count = 0
  /\ textgrid_path = NoFile
  /\ duration = 0
  /\ IdleWalk

ExtractText ==
  /\ pc = "ready"
  /\ text' = extract_text_from_txt(txt_path)
  /\ pc' = "extracted"
  /\ UNCHANGED << txt_path, recleaned, word_count, textgrid_path, duration,
                  walkVars >>

CountWords ==
  /\ pc = "ready"
  /\ word_count' = count_words_from_txt(txt_path)
  /\ pc' = "counted"
  /\ UNCHANGED << txt_path, text, recleaned, textgrid_path, duration,
                  walkVars >>

NextText == ExtractText \/ CountWords

SpecText == InitText /\ [][NextText]_vars

(***************************************************************************)
(* The duration reader on one file                                         *)
(***************************************************************************)
InitGrid ==
  /\ pc = "grid"
  /\ \E n \in 0..MaxGridLines : \E ls \in [1..n -> TextGridLines] :
       \E e \in 0..(n + 1) :
         textgrid_path = [lines |-> ls, err |-> e]
  /\ duration = 0
  /\ txt_path = NoFile
  /\ text = ""
  /\ recleaned = ""
  /\ word_count = 0
  /\ IdleWalk

GetDuration ==
  /\ pc = "grid"
  /\ duration' = get_duration_from_textgrid(textgrid_path)
  /\ pc' = "measured"
  /\ UNCHANGED << txt_path, text, recleaned, word_count, textgrid_path,
                  walkVars >>

NextGrid == GetDuration

SpecGrid == InitGrid /\ [][NextGrid]_vars

(***************************************************************************)
(* extract_text_from_txt on one line, and again on a line whose content    *)
(* is the text it returned                                                 *)
(***************************************************************************)
InitClean ==
  /\ pc = "ready"
  /\ \/ \E n \in 0..MaxCleanPieces : \E ps \in [1..n -> CleanPieces] :
          txt_path = OneLineFile(JoinStr(ps))
     \/ \E n \in 0..MaxPieces : \E ps \in [1..n -> Pieces] :
          txt_path = OneLineFile(JoinStr(ps))
  /\ text = ""
  /\ recleaned = ""
  /\ word_count = 0
  /\ textgrid_path = NoFile
  /\ duration = 0
  /\ IdleWalk

\* the text goes back in as the content of a line
Reclean ==
  /\ pc = "extracted"
  /\ recleaned' = extract_text_from_txt(OneLineFile(text))
  /\ pc' = "recleaned"
  /\ UNCHANGED << txt_path, text, word_count, textgrid_path, duration,
                  walkVars >>

NextClean == ExtractText \/ Reclean

SpecClean == InitClean /\ [][NextClean]_vars

(***************************************************************************)
(* The two scripts on a corpus: push_to_huggingface.main from "collect",   *)
(* verify_stats.analyze_corpus from "analyze"                              *)
(***************************************************************************)
max_per_component ==
  IF TEST_MODE THEN << TEST_SAMPLES_PER_COMPONENT >> ELSE <<>>

InitWalk ==
  /\ IdleReaders
  /\ fs \in PresenceFamily \cup DetailFamily
  /\ \/ /\ pc = "collect"
        /\ REPO_ID \in { "bezzam/coraal", PlaceholderRepoId }
        /\ TEST_MODE \in BOOLEAN
     \/ /\ pc = "analyze"
        /\ REPO_ID = "bezzam/coraal"
        /\ TEST_MODE = FALSE
  /\ ci = 1
  /\ visited = <<>>
  /\ metadata_dict = EmptyDict
  /\ all_samples = <<>>
  /\ component_datasets = <<>>
  /\ push_attempted = FALSE
  /\ pushed = <<>>
  /\ results = <<>>

\* collect_dataset_samples: the component's directory is not there
CollectMissing ==
  /\ pc = "collect"
  /\ ci <= Len(components)
  /\ ~ fs[components[ci]].exists
  /\ visited' = Append(visited, components[ci])
  /\ ci' = SkipMissing(ci)
  /\ UNCHANGED << pc, readerVars, fs, REPO_ID, TEST_MODE, metadata_dict,
                  all_samples, component_datasets, push_attempted, pushed,
                  results >>

\* collect_dataset_samples: one component whose directory is there
CollectComponent ==
  /\ pc = "collect"
  /\ ci <= Len(components)
  /\ fs[components[ci]].exists
  /\ visited' = Append(visited, components[ci])
  /\ metadata_dict' = load_metadata(fs[components[ci]].entries, components[ci])
  /\ all_samples' =
       WithSamples(all_samples, components[ci],
                   ComponentSamples(fs[components[ci]].entries, components[ci],
                                    max_per_component))
  /\ ci' = ci + 1
  /\ UNCHANGED << pc, readerVars, fs, REPO_ID, TEST_MODE, component_datasets,
                  push_attempted, pushed, results >>

\* main: no samples collected, return
MainNoSamples ==
  /\ pc = "collect"
  /\ ci > Len(components)
  /\ NoSamplesCollected(all_samples)
  /\ pc' = "done"
  /\ UNCHANGED << readerVars, walkVars >>

\* main: create_datasets
CreateDatasets ==
  /\ pc = "collect"
  /\ ci > Len(components)
  /\ ~ NoSamplesCollected(all_samples)
  /\ component_datasets' = create_datasets(all_samples, 1)
  /\ pc' = "push"
  /\ UNCHANGED << readerVars, fs, REPO_ID, TEST_MODE, ci, visited,
                  metadata_dict, all_samples, push_attempted, pushed, results >>

\* main: REPO_ID is the placeholder, return
MainUnconfigured ==
  /\ pc = "push"
  /\ Unconfigured(REPO_ID)
  /\ pc' = "done"
  /\ UNCHANGED << readerVars, walkVars >>

\* main: push_dataset_to_hub is called
StartPush ==
  /\ pc = "push"
  /\ ~ Unconfigured(REPO_ID)
  /\ push_attempted' = TRUE
  /\ pc' = "pushing"
  /\ UNCHANGED << readerVars, fs, REPO_ID, TEST_MODE, ci, visited,
                  metadata_dict, all_samples, component_datasets, pushed,
                  results >>

\* push_dataset_to_hub: one config is pushed
PushConfig ==
  /\ pc = "pushing"
  /\ Len(pushed) < Len(component_datasets)
  /\ pushed' = Append(pushed, component_datasets[Len(pushed) + 1].component)
  /\ UNCHANGED << pc, readerVars, fs, REPO_ID, TEST_MODE, ci, visited,
                  metadata_dict, all_samples, component_datasets,
                  push_attempted, results >>

\* push_dataset_to_hub: the hub raises, main catches it
PushRaises ==
  /\ pc = "pushing"
  /\ Len(pushed) < Len(component_datasets)
  /\ pc' = "done"
  /\ UNCHANGED << readerVars, walkVars >>

\* push_dataset_to_hub: every config is pushed
PushReturns ==
  /\ pc = "pushing"
  /\ Len(pushed) = Len(component_datasets)
  /\ pc' = "done"
  /\ UNCHANGED << readerVars, walkVars >>

\* analyze_corpus: the component's directory is not there
AnalyzeMissing ==
  /\ pc = "analyze"
  /\ ci <= Len(components)
  /\ ~ fs[components[ci]].exists
  /\ visited' = Append(visited, components[ci])
  /\ ci' = ci + 1
  /\ UNCHANGED << pc, readerVars, fs, REPO_ID, TEST_MODE, metadata_dict,
                  all_samples, component_datasets, push_attempted, pushed,
                  results >>

\* analyze_corpus: one component whose directory is there
AnalyzeComponent ==
  /\ pc = "analyze"
  /\ ci <= Len(components)
  /\ fs[components[ci]].exists
  /\ visited' = Append(visited, components[ci])
  /\ results' = Append(results,
                       ComponentStatistics(fs[components[ci]].entries,
                                           components[ci]))
  /\ ci' = ci + 1
  /\ UNCHANGED << pc, readerVars, fs, REPO_ID, TEST_MODE, metadata_dict,
                  all_samples, component_datasets, push_attempted, pushed >>

\* analyze_corpus: return results
AnalyzeReturns ==
  /\ pc = "analyze"
  /\ ci > Len(components)
  /\ pc' = "analyzed"
  /\ UNCHANGED << readerVars, walkVars >>

NextWalk ==
  \/ CollectMissing
  \/ CollectComponent
  \/ MainNoSamples
  \/ CreateDatasets
  \/ MainUnconfigured
  \/ StartPush
  \/ PushConfig
  \/ PushRaises
  \/ PushReturns
  \/ AnalyzeMissing
  \/ AnalyzeComponent
  \/ AnalyzeReturns

SpecWalk == InitWalk /\ [][NextWalk]_vars

(***************************************************************************)
(* Properties of the transcript readers                                    *)
(***************************************************************************)
ReadFails(f) == f.lines = <<>> \/ (f.err >= 1 /\ f.err <= Len(f.lines) + 1)

DataLineNumbers(f) == 2..Len(f.lines)

\* the content column of a line as the readers take it, <<>> when there is none
ContentOf(line) ==
  LET parts == LineParts(line)
  IN  IF Len(parts) < 4 THEN <<>> ELSE parts[4]

\* the line's tab-separated field 3 (0-indexed), <<>> when there is none
RawField3(line) ==
  LET fields == SplitOn(Chars(line), "\t")
  IN  IF Len(fields) < 4 THEN <<>> ELSE fields[4]

HasRedactionSpan(cs) == \E i \in 1..Len(cs) : RedactionMatch(cs, i) > 0

WithoutLine(f, k) ==
  [lines |-> SubSeq(f.lines, 1, k - 1) \o SubSeq(f.lines, k + 1, Len(f.lines)),
   err |-> f.err]

\* C3: a line whose content contains a redaction span (slash, RD-, one or
\* more non-slash characters, slash) gives text with no substring of that form.
C3_RedactionSpansRemoved ==
  (pc = "extracted" /\ txt_path.err = 0 /\ Len(txt_path.lines) = 2
     /\ HasRedactionSpan(ContentOf(txt_path.lines[2])))
    => ~ HasRedactionSpan(Chars(text))

\* the line with every match of the pattern in its content replaced by a space
SpansBlanked(line, Match(_, _)) ==
  LET parts   == LineParts(line)
      content == parts[4]
      blanked == ReSubFrom(content,
                           [i \in 1..Len(content) |-> Match(content, i)],
                           <<" ">>, 1)
  IN  IF Len(parts) < 4 THEN line
      ELSE Str(Join([j \in 1..Len(parts) |->
                       IF j = 4 THEN blanked ELSE parts[j]], <<"\t">>))

FileSpansBlanked(f, Match(_, _)) ==
  [lines |-> [k \in 1..Len(f.lines) |->
                IF k = 1 THEN f.lines[k] ELSE SpansBlanked(f.lines[k], Match)],
   err |-> f.err]

\* a redaction span whose inside has no whitespace and none of "<", "[", "]"
PlainSpanMatch(cs, i) ==
  LET n == RedactionMatch(cs, i)
  IN  IF n > 0 /\ \A k \in (i + 4)..(i + n - 2) :
                    cs[k] \notin Whitespace \cup {"<", "[", "]"}
      THEN n ELSE 0

\* C4 as stated: count_words_from_txt counts a file as it counts the file with
\* every redaction span replaced by a single space.
C4_SpansCountZeroWords ==
  pc = "counted" =>
    word_count = count_words_from_txt(FileSpansBlanked(txt_path, RedactionMatch))

\* C4 amended: count_words_from_txt counts a file as it counts the file with
\* every redaction span that has no whitespace, "<", "[" or "]" inside replaced
\* by a single space.
C4_PlainSpansCountZeroWords ==
  pc = "counted" =>
    word_count = count_words_from_txt(FileSpansBlanked(txt_path, PlainSpanMatch))

C4_Witness ==
  /\ pc = "counted"
  /\ word_count > 0
  /\ \E k \in DataLineNumbers(txt_path) :
       LET c == ContentOf(txt_path.lines[k])
       IN  \E i \in 1..Len(c) : PlainSpanMatch(c, i) > 0

\* C5: a failed read is caught and the file contributes nothing: the text is
\* empty and the word count is 0, wherever the failure happens.
C5_FailedReadContributesNothing ==
  /\ (pc = "extracted" /\ ReadFails(txt_path)) => text = ""
  /\ (pc = "counted" /\ ReadFails(txt_path)) => word_count = 0

\* C10: a data line whose tab-separated field 3 begins with "(pause" adds
\* nothing: both readers return what they return for the file without it.
C10_PauseLinesContributeNothing ==
  \A k \in DataLineNumbers(txt_path) :
    (txt_path.err = 0 /\ StartsWith(RawField3(txt_path.lines[k]), Chars("(pause")))
      => /\ pc = "extracted" =>
              text = extract_text_from_txt(WithoutLine(txt_path, k))
         /\ pc = "counted" =>
              word_count = count_words_from_txt(WithoutLine(txt_path, k))

(***************************************************************************)
(* The cleaning rules of the text mode, written rule by rule on the head   *)
(* of the string                                                           *)
(***************************************************************************)
\* the number of ASCII letters cs begins with
RECURSIVE LetterRun(_)
LetterRun(cs) ==
  IF cs # <<>> /\ Head(cs) \in AsciiLetters THEN 1 + LetterRun(Tail(cs)) ELSE 0

\* rule 2: "[" and "]" go, what they enclose stays
RuleSquare(cs) == SelectSeq(cs, LAMBDA c : c # "[" /\ c # "]")

\* rule 3: "<", something other than ">", ">" goes with what it encloses
RECURSIVE RuleAngle(_)
RuleAngle(cs) ==
  IF cs = <<>> THEN <<>>
  ELSE LET j == FirstIndex(Tail(cs), ">")
       IN  IF Head(cs) = "<" /\ j >= 2
           THEN RuleAngle(SubSeq(cs, j + 2, Len(cs)))
           ELSE << Head(cs) >> \o RuleAngle(Tail(cs))

\* rule 4: "/RD-", something other than "/", "/" goes
RECURSIVE RuleRedaction(_)
RuleRedaction(cs) ==
  IF cs = <<>> THEN <<>>
  ELSE LET j == FirstIndex(SubSeq(cs, 5, Len(cs)), "/")
       IN  IF StartsWith(cs, Chars("/RD-")) /\ j >= 2
           THEN RuleRedaction(SubSeq(cs, j + 5, Len(cs)))
           ELSE << Head(cs) >> \o RuleRedaction(Tail(cs))

\* rule 5: "(", letters only, ")" goes; any other parenthesis stays
RECURSIVE RuleDescriptor(_)
RuleDescriptor(cs) ==
  IF cs = <<>> THEN <<>>
  ELSE LET n == LetterRun(Tail(cs))
       IN  IF Head(cs) = "(" /\ n >= 1 /\ Len(cs) >= n + 2 /\ cs[n + 2] = ")"
           THEN RuleDescriptor(SubSeq(cs, n + 3, Len(cs)))
           ELSE << Head(cs) >> \o RuleDescriptor(Tail(cs))

\* rule 6: whitespace runs become one space, none at either end
RECURSIVE RuleWhitespace(_)
RuleWhitespace(cs) ==
  IF cs = <<>> THEN <<>>
  ELSE IF Head(cs) \in Whitespace THEN RuleWhitespace(Tail(cs))
  ELSE LET stop == { i \in 1..Len(cs) : cs[i] \in Whitespace }
           e    == IF stop = {} THEN Len(cs) ELSE Min(stop) - 1
           rest == RuleWhitespace(SubSeq(cs, e + 1, Len(cs)))
       IN  IF rest = <<>> THEN SubSeq(cs, 1, e)
           ELSE SubSeq(cs, 1, e) \o << " " >> \o rest

RulesInOrder(content) ==
  RuleWhitespace(RuleDescriptor(RuleRedaction(RuleAngle(RuleSquare(content)))))

\* the fragments of the data lines from line k on: the lines with a content
\* that is not empty and is no pause, cleaned, the empty results left out
RECURSIVE Fragments(_, _)
Fragments(lines, k) ==
  IF k > Len(lines) THEN <<>>
  ELSE LET parts == LineParts(lines[k])
           frag  == IF Len(parts) < 4 THEN <<>>
                    ELSE IF parts[4] = <<>> THEN <<>>
                    ELSE IF StartsWith(parts[4], Chars("(pause")) THEN <<>>
                    ELSE RulesInOrder(parts[4])
       IN  (IF frag = <<>> THEN <<>> ELSE << frag >>) \o Fragments(lines, k + 1)

ExampleContent == "[he] <laugh> said /RD-NAME-1/ (breathy) hello"

NoMarkup(content) ==
  \A i \in 1..Len(content) :
    content[i] \notin { "[", "]", "<", ">", "/", "(", ")" }

\* C11: cleaning is idempotent on a line without markup: when the content of
\* the line has none of [ ] < > / ( ), the text of the line whose content is
\* the cleaned text is that cleaned text again.
C11_CleaningIsIdempotent ==
  (pc = "recleaned" /\ NoMarkup(ContentOf(txt_path.lines[2]))) =>
    /\ text = Str(CleanContent(ContentOf(txt_path.lines[2])))
    /\ NoMarkup(Chars(text))
    /\ recleaned = text

C11_Witness ==
  /\ pc = "recleaned"
  /\ ContentOf(txt_path.lines[2]) = Chars("he  \fsaid")
  /\ text = "he said"
  /\ recleaned = "he said"

(***************************************************************************)
(* Properties of the duration reader                                       *)
(***************************************************************************)
BeginsWithXmax(line) == StartsWith(Strip(Chars(line)), Chars("xmax ="))

\* the digits and dots that follow "xmax", "=" at the head of cs (whitespace
\* allowed around the "="), <<>> when cs does not begin so
RECURSIVE DropSpaces(_)
DropSpaces(cs) ==
  IF cs # <<>> /\ Head(cs) \in Whitespace THEN DropSpaces(Tail(cs)) ELSE cs

RECURSIVE NumberRun(_)
NumberRun(cs) ==
  IF cs # <<>> /\ Head(cs) \in Digits \cup {"."}
  THEN << Head(cs) >> \o NumberRun(Tail(cs)) ELSE <<>>

NumberAtHead(cs) ==
  IF ~ StartsWith(cs, Chars("xmax")) THEN <<>>
  ELSE LET a == DropSpaces(SubSeq(cs, 5, Len(cs)))
       IN  IF a = <<>> \/ Head(a) # "=" THEN <<>>
           ELSE NumberRun(DropSpaces(Tail(a)))

\* the first run of digits and dots that follows an "xmax =" in the line
RECURSIVE NumberOnLine(_)
NumberOnLine(cs) ==
  IF cs = <<>> THEN <<>>
  ELSE IF NumberAtHead(cs) # <<>> THEN NumberAtHead(cs)
  ELSE NumberOnLine(Tail(cs))

TruncatedTo(g, k) == [lines |-> SubSeq(g.lines, 1, k), err |-> g.err]

XmaxLines(g) == { k \in 1..Len(g.lines) : BeginsWithXmax(g.lines[k]) }

NumberedXmaxLines(g) ==
  { k \in XmaxLines(g) : NumberOnLine(Chars(g.lines[k])) # <<>> }

\* 125.43 seconds
Seconds125_43 == 125 * (10 ^ FracDigits) + 43 * (10 ^ (FracDigits - 2))

\* C6 as stated: the first line whose trimmed form begins with "xmax =" decides
\* the result (125.43 for "xmax = 125.430000 ") and no later line influences
\* it; 0.0 when there is no such line or the file cannot be read.
C6_FirstXmaxLineDecides ==
  pc = "measured" =>
    LET g == textgrid_path
    IN  /\ (g.err # 0 /\ (XmaxLines(g) = {} \/ g.err <= Min(XmaxLines(g))))
             => duration = 0
        /\ (g.err = 0 /\ XmaxLines(g) = {}) => duration = 0
        /\ (g.err = 0 /\ XmaxLines(g) # {}) =>
             /\ duration =
                  get_duration_from_textgrid(TruncatedTo(g, Min(XmaxLines(g))))
             /\ g.lines[Min(XmaxLines(g))] = "xmax = 125.430000 "
                  => duration = Seconds125_43

\* What the reader does: the first line that begins with "xmax =" and has a
\* number after an "xmax =" decides the result: that number, or 0.0 when its
\* digits and dots are no number; a line that begins with "xmax =" without a
\* number is passed over.
FirstNumberedXmaxLineDecides ==
  pc = "measured" =>
    LET g == textgrid_path
        K == NumberedXmaxLines(g)
    IN  /\ (g.err # 0 /\ (K = {} \/ g.err <= Min(K))) => duration = 0
        /\ K = {} => duration = 0
        /\ (K # {} /\ (g.err = 0 \/ g.err > Min(K))) =>
             LET token == NumberOnLine(Chars(g.lines[Min(K)]))
             IN  /\ FloatValid(token) => duration = FloatValue(token)
                 /\ ~ FloatValid(token) => duration = 0
                 /\ g.lines[Min(K)] = "xmax = 125.430000 "
                      => duration = Seconds125_43
                 /\ duration =
                      get_duration_from_textgrid(TruncatedTo(g, Min(K)))

(***************************************************************************)
(* Properties of the metadata join                                         *)
(***************************************************************************)
\* the components whose directory is there, among the first n
RECURSIVE Present(_)
Present(n) ==
  IF n = 0 THEN <<>>
  ELSE IF fs[components[n]].exists THEN Append(Present(n - 1), components[n])
  ELSE Present(n - 1)

\* the component whose metadata the loop holds: the last one collected
Collected == Present(ci - 1)[Len(Present(ci - 1))]

HasCollected == pc = "collect" /\ Present(ci - 1) # <<>>

\* the metadata table load_metadata reads for the component
TableOf(c) == GlobMetadata(fs[c].entries, c)[1].file

TableRead(c) ==
  /\ GlobMetadata(fs[c].entries, c) # <<>>
  /\ TableOf(c).lines # <<>>
  /\ ~ (TableOf(c).err >= 1 /\ TableOf(c).err <= Len(TableOf(c).lines) + 1)

\* the fields of the k-th line of a table
Fields(table, k) == CsvRow(table.lines[k])

\* the position of the identifier column in the header, 0 when it has none
IdentifierColumn(table) ==
  LET header == Fields(table, 1)
      at     == { j \in 1..Len(header) : header[j] = "CORAAL.File" }
  IN  IF at = {} THEN 0 ELSE Min(at)

\* the lines of the table whose identifier field is id
RowsOf(table, id) ==
  LET col == IdentifierColumn(table)
  IN  { k \in 2..Len(table.lines) :
          LET fields == Fields(table, k)
          IN  col # 0 /\ Len(fields) >= col /\ fields[col] = id }

Identifiers(table) ==
  LET col == IdentifierColumn(table)
      ids == { IF col # 0 /\ Len(Fields(table, k)) >= col
               THEN Fields(table, k)[col] ELSE "" :
               k \in 2..Len(table.lines) }
  IN  ids \ {""}

OwnKeys == {"audio", "text", "file_id"}

SamplesOf(c) ==
  LET at == { i \in 1..Len(all_samples) : all_samples[i].component = c }
  IN  IF at = {} THEN <<>> ELSE all_samples[Min(at)].samples

\* the name of the audio file a sample of component c was made from
AudioName(c, sample) ==
  CHOOSE n \in { fs[c].entries[i].name : i \in 1..Len(fs[c].entries) } :
    c \o "/" \o n = sample["audio"]

\* C2 as stated: a lookup of an identifier of the CORAAL.File column gives the
\* other columns of its row, without the identifier column ({'Age': '19',
\* 'Gender': 'f'} for the row ATL_se0_ag1_f_01, 19, f); no other identifier
\* is a key.
C2_LookupGivesOtherColumns ==
  (HasCollected /\ TableRead(Collected)) =>
    LET table == TableOf(Collected)
    IN  /\ DOMAIN metadata_dict = Identifiers(table)
        /\ \A id \in DOMAIN metadata_dict :
             LET fields == Fields(table, Max(RowsOf(table, id)))
             IN  /\ "CORAAL.File" \notin DOMAIN metadata_dict[id]
                 /\ (Fields(table, 1) = << "CORAAL.File", "Age", "Gender" >>
                       /\ fields = << "ATL_se0_ag1_f_01", "19", "f" >>)
                      => metadata_dict[id] = ("Age" :> "19") @@ ("Gender" :> "f")

\* C2 amended: a lookup of an identifier of the CORAAL.File column gives the
\* whole row, every column of the header with the identifier column, as the
\* last row with that identifier has it (None for a column beyond the row,
\* the fields beyond the header under the key None); no other identifier is a
\* key, an empty or missing identifier never is, and a sample whose
\* identifier is no key gets no metadata column.
C2_LookupGivesWholeRow ==
  HasCollected =>
    /\ ~ TableRead(Collected) => metadata_dict = EmptyDict
    /\ TableRead(Collected) =>
         LET table  == TableOf(Collected)
             header == Fields(table, 1)
         IN  /\ DOMAIN metadata_dict = Identifiers(table)
             /\ "" \notin DOMAIN metadata_dict
             /\ \A id \in DOMAIN metadata_dict :
                  LET fields == Fields(table, Max(RowsOf(table, id)))
                      row    == metadata_dict[id]
                  IN  /\ DOMAIN row =
                           { header[j] : j \in 1..Len(header) }
                             \cup (IF Len(fields) > Len(header)
                                   THEN {PyNone} ELSE {})
                      /\ \A j \in 1..Len(header) :
                           row[header[j]] =
                             IF j <= Len(fields) THEN fields[j] ELSE PyNone
                      /\ Len(fields) > Len(header) =>
                           row[PyNone] =
                             SubSeq(fields, Len(header) + 1, Len(fields))
                      /\ (header = << "CORAAL.File", "Age", "Gender" >>
                            /\ fields = << "ATL_se0_ag1_f_01", "19", "f" >>)
                           => row = ("CORAAL.File" :> "ATL_se0_ag1_f_01")
                                      @@ ("Age" :> "19") @@ ("Gender" :> "f")
    /\ \A i \in 1..Len(SamplesOf(Collected)) :
         LET sample == SamplesOf(Collected)[i]
             id     == PathStem(AudioName(Collected, sample))
         IN  IF id \in DOMAIN metadata_dict
             THEN \A col \in DOMAIN metadata_dict[id] :
                    sample[col] = metadata_dict[id][col]
             ELSE DOMAIN sample = OwnKeys

C2_Witness ==
  /\ HasCollected
  /\ TableRead(Collected)
  /\ Fields(TableOf(Collected), 1) = << "CORAAL.File", "Age", "Gender" >>
  /\ "ATL_se0_ag1_f_01" \in DOMAIN metadata_dict
  /\ "ATL_se0_ag1_f_01_1" \in DOMAIN metadata_dict
  /\ metadata_dict["ATL_se0_ag1_f_01_1"]["Gender"] = PyNone

\* C1 as stated: a sample's file identifier, and the key its metadata is
\* looked up with, is the file name's stem without the trailing _<session>,
\* so that a row keyed by ATL_se0_ag1_f_01 is attached to the sample of
\* ATL_se0_ag1_f_01_1.wav.
C1_FileIdDropsSession ==
  HasCollected =>
    \A i \in 1..Len(SamplesOf(Collected)) :
      LET sample == SamplesOf(Collected)[i]
          id     == parse_filename(AudioName(Collected, sample))
      IN  /\ sample["file_id"] = id
          /\ id \in DOMAIN metadata_dict =>
               \A col \in DOMAIN metadata_dict[id] :
                 col \in DOMAIN sample /\ sample[col] = metadata_dict[id][col]

\* C1 amended: a sample's file identifier, and the key its metadata is looked
\* up with, is the whole stem of the file name, session number included
\* (ATL_se0_ag1_f_01_1 for ATL_se0_ag1_f_01_1.wav): a row keyed by the whole
\* stem is attached to the sample, and with no such row the sample has no
\* metadata column.
C1_FileIdIsWholeStem ==
  HasCollected =>
    \A i \in 1..Len(SamplesOf(Collected)) :
      LET sample == SamplesOf(Collected)[i]
          name   == AudioName(Collected, sample)
          id     == PathStem(name)
      IN  /\ sample["file_id"] = id
          /\ name = "ATL_se0_ag1_f_01_1.wav" => id = "ATL_se0_ag1_f_01_1"
          /\ id \in DOMAIN metadata_dict =>
               \A col \in DOMAIN metadata_dict[id] :
                 col \in DOMAIN sample /\ sample[col] = metadata_dict[id][col]
          /\ id \notin DOMAIN metadata_dict => DOMAIN sample = OwnKeys

C1_Witness ==
  /\ pc = "collect"
  /\ ci = 2
  /\ Len(all_samples) = 1
  /\ Len(all_samples[1].samples) = 1
  /\ all_samples[1].samples[1]["audio"] = "ATL/ATL_se0_ag1_f_01_1.wav"
  /\ all_samples[1].samples[1]["file_id"] = "ATL_se0_ag1_f_01_1"
  /\ DOMAIN metadata_dict = {"ATL_se0_ag1_f_01_1", "ATL_se0_ag1_f_01"}
  /\ "Age" \in DOMAIN all_samples[1].samples[1]
  /\ all_samples[1].samples[1]["Age"] = metadata_dict["ATL_se0_ag1_f_01_1"]["Age"]

(***************************************************************************)
(* Properties of the walk over the components                              *)
(***************************************************************************)
\* what collect_dataset_samples returns for a list of components that are
\* all there
RECURSIVE CollectedOver(_)
CollectedOver(list) ==
  IF list = <<>> THEN <<>>
  ELSE LET c == list[Len(list)]
       IN  WithSamples(CollectedOver(SubSeq(list, 1, Len(list) - 1)), c,
                       ComponentSamples(fs[c].entries, c, max_per_component))

\* what analyze_corpus returns for a list of components that are all there
AnalyzedOver(list) ==
  [i \in 1..Len(list) |-> ComponentStatistics(fs[list[i]].entries, list[i])]

InCollect == pc \in {"collect", "push", "pushing", "done"}

InAnalyze == pc \in {"analyze", "analyzed"}

\* C8: whatever is missing, unreadable or malformed, both walks take up the
\* eight components in their order and return; a component without a
\* directory leaves nothing, and the others give what they give when the
\* missing ones are not in the list.
C8_WalkTakesEveryComponent ==
  /\ ci <= Len(components) + 1
  /\ visited = SubSeq(components, 1, ci - 1)
  /\ pc \in {"push", "pushing", "done", "analyzed"} =>
       visited = << "ATL", "DCA", "DCB", "DTA", "LES", "PRV", "ROC", "VLD" >>
  /\ InCollect =>
       \A c \in ComponentNames : ~ fs[c].exists => SamplesOf(c) = <<>>
  /\ (pc = "collect" /\ ci = Len(components) + 1) =>
       all_samples = CollectedOver(Present(Len(components)))
  /\ InAnalyze =>
       \A i \in 1..Len(results) : fs[results[i].component].exists
  /\ (pc = "analyze" /\ ci = Len(components) + 1) =>
       results = AnalyzedOver(Present(Len(components)))

C8_Witness ==
  /\ pc = "done"
  /\ ~ fs["DCA"].exists
  /\ fs["ATL"].exists
  /\ fs["VLD"].exists
  /\ Len(all_samples) = 5
  /\ visited = components

C8_WitnessFailures ==
  /\ pc = "analyzed"
  /\ ~ fs["DCA"].exists
  /\ GlobMetadata(fs["ATL"].entries, "ATL") = <<>>
  /\ Exists(fs["ATL"].entries, "ATL_se0_ag1_f_01_1.TextGrid")
  /\ FileNamed(fs["ATL"].entries, "ATL_se0_ag1_f_01_1.TextGrid") = Unreadable
  /\ Exists(fs["ATL"].entries, "ATL_se0_ag1_f_01_1.txt")
  /\ FileNamed(fs["ATL"].entries, "ATL_se0_ag1_f_01_1.txt") = Unreadable
  /\ Len(results) = 1
  /\ visited = components

\* some audio file among those a run takes has its transcript beside it
SomeSampleOnDisk ==
  \E c \in ComponentNames :
    /\ fs[c].exists
    /\ LET wav_files ==
             Limited(GlobSuffix(fs[c].entries, ".wav"), max_per_component)
       IN  \E k \in 1..Len(wav_files) :
             Exists(fs[c].entries, WithSuffix(wav_files[k].name, ".txt"))

C9_WitnessNoPush ==
  /\ pc = "done"
  /\ ~ push_attempted
  /\ fs["ATL"].exists
  /\ all_samples = <<>>

====
